---- MODULE Spec2Model ----
(***************************************************************************)
(* A model of the console bitmap font renderer ssfn_putc of                *)
(* src/kernel/init/framebuffer/ssfn.h: the character-table scan, the       *)
(* console control handling (tab, wrap, newline, scroll), the fragment     *)
(* blitter and the cursor advance.                                         *)
(*                                                                         *)
(* The font image is a sequence of bytes; an offset o into it names the    *)
(* byte src[o + 1].  Pixel memory is a function from pixel addresses to    *)
(* pixel values; ssfn_dst.ptr is a pixel address, 0 being the null         *)
(* pointer.  The pitch is a multiple of the pixel size, so that a byte     *)
(* offset y * p + x * sizeof(SSFN_PIXEL) is the pixel offset y * s + x.    *)
(***************************************************************************)
EXTENDS Integers, Sequences, FiniteSets, TLC

VARIABLES
    ssfn_src,   \* the font image: a sequence of bytes, <<>> for a null pointer
    ssfn_dst,   \* the destination context: ptr, w, h, p, x, y, fg, bg
    mem,        \* pixel memory around ssfn_dst.ptr
    ret,        \* the status the last call returned
    unicode,    \* the code point of the last call
    chr,        \* the glyph record the last call's scan located, or NoChr
    steps,      \* the number of scan loop iterations of the last call
    pre,        \* cursor and pixel memory when the last call began
    adv,        \* the cursor after the last call's vertical advance, before the scroll test
    scrolled,   \* whether the last call took the scroll branch
    draw,       \* the cursor when the last call began to blit
    log,        \* the pixel stores of the last call, in program order
    prev,       \* code point and located record of the call before the last
    calls,      \* the number of calls made
    keys        \* the code points the console's caller sends

vars == <<ssfn_src, ssfn_dst, mem, ret, unicode, chr, steps, pre, adv, scrolled,
          draw, log, prev, calls, keys>>

-----------------------------------------------------------------------------
(* Bounds of the model *)

MaxCalls == 2       \* calls in one behaviour
MaxX == 10          \* a call is made only with the cursor at x <= MaxX
MaxY == 3           \* and y <= MaxY
MaxTable == 2       \* entries of a generated character table, before its closing skips
Stride == 12        \* pixels in a row of pixel memory

-----------------------------------------------------------------------------
(* Program constants *)

SSFN_OK == 0
SSFN_ERR_INVINP == -4
SSFN_ERR_NOGLYPH == -7
PixelSize == 4
CodeLimit == 1114112        \* 0x110000
Tab == 9
Newline == 10
CarriageReturn == 13

NoChr == -1                 \* chr = 0, the null pointer: no record located
NullFont == <<>>            \* ssfn_src = 0

-----------------------------------------------------------------------------
(* Bytes and C arithmetic *)

Byte(src, o) == src[o + 1]

\* a & mask for a one-bit mask 2^b
Bit(a, b) == (a \div (2 ^ b)) % 2

\* C's remainder truncates toward zero
CRem(a, b) == IF a >= 0 THEN a % b ELSE -((-a) % b)

LE16(n) == <<n % 256, (n \div 256) % 256>>
LE24(n) == <<n % 256, (n \div 256) % 256, (n \div 65536) % 256>>
LE32(n) == <<n % 256, (n \div 256) % 256, (n \div 65536) % 256, (n \div 16777216) % 256>>

\* the little-endian uint32_t field characters_offs of ssfn_font_t
CharactersOffs(src) ==
    Byte(src, 16) + 256 * Byte(src, 17) + 65536 * Byte(src, 18) + 16777216 * Byte(src, 19)

\* the field height of ssfn_font_t
FontHeight(src) == Byte(src, 11)

-----------------------------------------------------------------------------
(* The character-table scan, lines 276-281 *)

\* the byte length of the glyph record at ptr
RecordLen(src, ptr) ==
    6 + Byte(src, ptr + 1) * (IF Bit(Byte(src, ptr), 6) = 1 THEN 6 ELSE 5)

\* line 279: j of the one-byte skip, ptr[0] & 0x3F
ShortSkip(b0) == b0 % 64

\* line 278 without the & 0x3F
MidSkipNoMask(b0, b1) == b0 * 256 + b1

\* line 278: j of the two-byte skip, ((ptr[0] & 0x3F) << 8) | ptr[1]
MidSkip(b0, b1) == (b0 % 64) * 256 + b1

\* one turn of the loop body, lines 277-280, from st: the pointer, the code point i,
\* the record located (NoChr before the break) and the turns taken
ScanStep(src, st, u) ==
    LET b0 == Byte(src, st.ptr)
        to(ptr, i) == [ptr |-> ptr, i |-> i, chr |-> NoChr, n |-> st.n + 1]
    IN  IF b0 = 255 THEN to(st.ptr + 1, st.i + 65535 + 1)
        ELSE IF b0 \div 64 = 3
             THEN to(st.ptr + 2, st.i + MidSkip(b0, Byte(src, st.ptr + 1)) + 1)
        ELSE IF b0 \div 64 = 2 THEN to(st.ptr + 1, st.i + ShortSkip(b0) + 1)
        ELSE IF st.i = u THEN [st EXCEPT !.chr = st.ptr, !.n = st.n + 1]
        ELSE to(st.ptr + RecordLen(src, st.ptr), st.i + 1)

\* line 276: the loop runs until the break or i reaches 0x110000
RECURSIVE ScanFrom(_, _, _)
ScanFrom(src, st, u) ==
    IF st.chr # NoChr \/ st.i >= CodeLimit THEN st
    ELSE ScanFrom(src, ScanStep(src, st, u), u)

Scan(src, u) ==
    LET st == ScanFrom(src, [ptr |-> CharactersOffs(src), i |-> 0, chr |-> NoChr, n |-> 0], u)
    IN  [chr |-> st.chr, steps |-> st.n]

-----------------------------------------------------------------------------
(* The validity test, lines 273-274 *)

\* lines 273-274 without the test of the pitch
InvalidNoPitch(src, dst) ==
    \/ src = NullFont
    \/ Byte(src, 0) # 83 \/ Byte(src, 1) # 70 \/ Byte(src, 2) # 78 \/ Byte(src, 3) # 50
    \/ dst.ptr = 0

Invalid(src, dst) ==
    \/ src = NullFont
    \/ Byte(src, 0) # 83 \/ Byte(src, 1) # 70 \/ Byte(src, 2) # 78 \/ Byte(src, 3) # 50
    \/ dst.ptr = 0
    \/ dst.p = 0

-----------------------------------------------------------------------------
(* Console control handling, lines 283-294 *)

\* a is a pixel address of row k of the destination, s pixels a row
InRow(a, dst, s, k) == a >= dst.ptr + k * s /\ a < dst.ptr + (k + 1) * s

\* lines 291-292: rows 0 .. j-1 receive rows i .. j+i-1, in ascending order
RECURSIVE ScrollRows(_, _, _, _, _, _)
ScrollRows(m, dst, s, i, j, k) ==
    IF k >= j THEN m
    ELSE ScrollRows([a \in DOMAIN m |-> IF InRow(a, dst, s, k) THEN m[a + i * s] ELSE m[a]],
                    dst, s, i, j, k + 1)

\* line 283 without the remainder
LastLineNoRem(src, dst) == dst.h - FontHeight(src)

\* line 283: j, the last visible line
LastLine(src, dst) == dst.h - FontHeight(src) - CRem(dst.h, FontHeight(src))

\* line 285: the tab snap.  The remainder is undefined for an advance of 0: every
\* glyph of a font drawn on a destination with a width has a nonzero advance.
TabSnap(x, a) == x - CRem(x, a)

\* line 286 without the glyph's advance
WrapsLate(dst, a, w) == dst.x > w

\* line 286: the wrap test
Wraps(dst, a, w) == dst.x + a > w

\* line 289 without the test j > 0
ScrollsAlways(dst, j) == dst.y > j

\* line 289: the scroll test
Scrolls(dst, j) == j > 0 /\ dst.y > j

Control(src, dst0, m, c, u, w, s) ==
    LET i == FontHeight(src)
        j == LastLine(src, dst0)
        d1 == IF c # NoChr /\ w # 0 /\ u = Tab
              THEN [dst0 EXCEPT !.x = TabSnap(dst0.x, Byte(src, c + 4))] ELSE dst0
        d2 == IF c # NoChr /\ w # 0 /\ Wraps(d1, Byte(src, c + 4), w)
              THEN [d1 EXCEPT !.x = 0, !.y = d1.y + i] ELSE d1
        d3 == IF u = Newline THEN [d2 EXCEPT !.y = d2.y + i] ELSE d2
        sc == Scrolls(d3, j)
        d4 == IF sc THEN [d3 EXCEPT !.y = j] ELSE d3
        m4 == IF sc THEN ScrollRows(m, d3, s, i, j, 0) ELSE m
    IN  [dst |-> d4, mem |-> m4, adv |-> [x |-> d3.x, y |-> d3.y], scrolled |-> sc]

-----------------------------------------------------------------------------
(* The blitter, lines 297-323 *)

\* A pixel store *p = val at row dst.y + y and column dst.x + l; fo, fr are the
\* fragment header's offset and the row of the fragment (-1 for a fill row).
Store(c, kind, val, y, l, fo, fr) ==
    [addr |-> c.dst.ptr + (c.dst.y + y) * c.s + c.dst.x + l, val |-> val, kind |-> kind,
     r |-> c.dst.y + y, c |-> c.dst.x + l, fo |-> fo, fr |-> fr, l |-> l]

\* the background painted whatever its colour
OpaqueAlways(c) == TRUE

\* lines 303, 315 and 319: the background is painted
Opaque(c) == c.dst.bg # 0

\* the column test of the background fill, lines 305 and 321
FillColOK(c, j) == j < Byte(c.src, c.chr + 2) /\ (c.w = 0 \/ c.dst.x + j < c.w)

\* the row test of all three loops, lines 304, 310 and 320
RowOK(c, y) == c.dst.h = 0 \/ c.dst.y + y < c.dst.h

\* the column test of the fragment rows, line 313
FragColOK(c, l) == c.dst.x + l >= 0 /\ (c.w = 0 \/ c.dst.x + l < c.w)

\* lines 305 and 321: the columns j = 0, 1, .. one background row paints
FillWidth(c) ==
    CHOOSE n \in 0 .. Byte(c.src, c.chr + 2) :
        (\A j \in 0 .. n - 1 : FillColOK(c, j)) /\ ~FillColOK(c, n)

\* lines 304, 310 and 320: the row at which a loop over rows y, y+1, .. stops
RowsEnd(c, y, limit) ==
    IF y >= limit THEN y
    ELSE CHOOSE e \in y .. limit :
             (\A r \in y .. e - 1 : RowOK(c, r)) /\ (e = limit \/ ~RowOK(c, e))

\* lines 304-307 and 320-323: background rows from y up to limit, row by row
FillRows(c, kind, y, limit) ==
    LET e == RowsEnd(c, y, limit)
        n == FillWidth(c)
    IN  [y |-> e,
         log |-> [t \in 1 .. (e - y) * n |->
                     Store(c, kind, c.dst.bg, y + (t - 1) \div n, (t - 1) % n, -1, -1)]]

\* line 314 with the mask running from 0x80 down
MaskSetMsb(b, m) == (b \div (128 \div m)) % 2 = 1

\* line 314: *frg & m, m a power of two
MaskSet(b, m) == (b \div m) % 2 = 1

\* lines 311-312: m starts at 1, doubles each pixel and restarts after 0x80 with
\* frg stepping on, rows running on in the same byte stream: at pixel t of the
\* fragment the byte is t / 8 and the mask is 2^(t % 8)
Mask(t) == 2 ^ (t % 8)

\* lines 313-315: the store of pixel t of the fragment at fo, k pixels a row
FragPixel(c, fo, k, y, t) ==
    LET fr == t \div k
        l == t % k
    IN  IF FragColOK(c, l)
        THEN IF MaskSet(Byte(c.src, fo + 2 + t \div 8), Mask(t))
             THEN Store(c, "fg", c.dst.fg, y + fr, l, fo, fr)
             ELSE IF Opaque(c)
                  THEN Store(c, "bg", c.dst.bg, y + fr, l, fo, fr)
                  ELSE Store(c, "none", 0, y + fr, l, fo, fr)
        ELSE Store(c, "none", 0, y + fr, l, fo, fr)

IsStore(st) == st.kind # "none"

\* lines 310-317: the rows of one fragment, j rows of k pixels from row y
FragRows(c, fo, k, j, y) ==
    LET e == RowsEnd(c, y, y + j)
    IN  [y |-> e,
         log |-> SelectSeq([t \in 1 .. (e - y) * k |-> FragPixel(c, fo, k, y, t - 1)],
                           IsStore)]

\* lines 300-301: the fragment offset of the reference at ptr
FragOffs(c, ptr) ==
    IF Bit(Byte(c.src, c.chr), 6) = 1
    THEN Byte(c.src, ptr + 5) * 16777216 + Byte(c.src, ptr + 4) * 65536
         + Byte(c.src, ptr + 3) * 256 + Byte(c.src, ptr + 2)
    ELSE Byte(c.src, ptr + 4) * 65536 + Byte(c.src, ptr + 3) * 256 + Byte(c.src, ptr + 2)

\* line 298: the size of a fragment reference
RefLen(c) == IF Bit(Byte(c.src, c.chr), 6) = 1 THEN 6 ELSE 5

\* line 299: the sentinel reference
IsSentinel(c, ptr) == Byte(c.src, ptr) = 255 /\ Byte(c.src, ptr + 1) = 255

\* line 302: the fragment at frg is a bitmap
IsBitmap(c, frg) == Byte(c.src, frg) \div 32 = 4

\* line 309: k, the row width in pixels
RowWidth(c, frg) == ((Byte(c.src, frg) % 32) + 1) * 8

\* lines 298-318: the fragment references i .. chr[1]-1
RECURSIVE Frags(_, _, _, _)
Frags(c, i, ptr, y) ==
    IF i >= Byte(c.src, c.chr + 1) THEN [y |-> y, log |-> <<>>]
    ELSE IF IsSentinel(c, ptr) THEN Frags(c, i + 1, ptr + RefLen(c), y)
    ELSE LET frg == FragOffs(c, ptr) IN
         IF ~IsBitmap(c, frg) THEN Frags(c, i + 1, ptr + RefLen(c), y)
         ELSE LET a == IF Opaque(c)
                       THEN FillRows(c, "gap", y, Byte(c.src, ptr + 1))
                       ELSE [y |-> Byte(c.src, ptr + 1), log |-> <<>>]
                  b == FragRows(c, frg, RowWidth(c, frg), Byte(c.src, frg + 1) + 1, a.y)
                  r == Frags(c, i + 1, ptr + RefLen(c), b.y)
              IN  [y |-> r.y, log |-> a.log \o b.log \o r.log]

\* lines 297-323: all the stores of one glyph
Blit(c) ==
    LET f == Frags(c, 0, c.chr + 6, 0)
    IN  IF Opaque(c)
        THEN f.log \o FillRows(c, "tail", f.y, Byte(c.src, c.chr + 3)).log
        ELSE f.log

\* the stores take effect in program order: the last store to a pixel stays
ApplyLog(m, lg) ==
    [a \in DOMAIN m |->
        LET ns == {n \in 1 .. Len(lg) : lg[n].addr = a}
        IN  IF ns = {} THEN m[a] ELSE lg[CHOOSE n \in ns : \A k \in ns : k <= n].val]

-----------------------------------------------------------------------------
(* ssfn_putc, lines 258-326 *)

\* line 324 without the vertical advance
AdvanceNoY(src, dst, c) == [dst EXCEPT !.x = dst.x + Byte(src, c + 4)]

\* line 324: the cursor advance
Advance(src, dst, c) ==
    [dst EXCEPT !.x = dst.x + Byte(src, c + 4), !.y = dst.y + Byte(src, c + 5)]

ssfn_putc(src, dst, m, u) ==
    LET s == dst.p \div PixelSize
        nothing == [ret |-> SSFN_ERR_INVINP, dst |-> dst, mem |-> m, chr |-> NoChr, steps |-> 0,
                    adv |-> [x |-> dst.x, y |-> dst.y], scrolled |-> FALSE,
                    draw |-> [x |-> dst.x, y |-> dst.y], log |-> <<>>]
    IN
    IF Invalid(src, dst) THEN nothing
    ELSE LET w == IF dst.w < 0 THEN -dst.w ELSE dst.w
             sc == Scan(src, u)
             ct == Control(src, dst, m, sc.chr, u, w, s)
             found == [nothing EXCEPT !.chr = sc.chr, !.steps = sc.steps, !.adv = ct.adv,
                                      !.scrolled = ct.scrolled, !.mem = ct.mem,
                                      !.draw = [x |-> ct.dst.x, y |-> ct.dst.y]]
         IN
         IF u = CarriageReturn \/ u = Newline
         THEN [found EXCEPT !.ret = SSFN_OK, !.dst = [ct.dst EXCEPT !.x = 0]]
         ELSE IF sc.chr = NoChr
         THEN [found EXCEPT !.ret = SSFN_ERR_NOGLYPH, !.dst = ct.dst]
         ELSE LET c == [src |-> src, dst |-> ct.dst, w |-> w, s |-> s, chr |-> sc.chr]
                  lg == Blit(c)
              IN  [found EXCEPT !.ret = SSFN_OK, !.log = lg,
                                !.mem = ApplyLog(ct.mem, lg),
                                !.dst = Advance(src, ct.dst, sc.chr)]

-----------------------------------------------------------------------------
(* Font images, after ssfn_font_t (lines 101-115) and the table format *)

RECURSIVE Flat(_)
Flat(ss) == IF ss = <<>> THEN <<>> ELSE Head(ss) \o Flat(Tail(ss))

\* the 32-byte header with the given magic, cell height and table offset
Header(magic, height, chars, size) ==
    magic \o LE32(size) \o <<0, 0, 8, height, 0, 0>> \o LE16(32) \o LE32(chars)
          \o LE32(0) \o LE32(0) \o LE32(0)

Magic == <<83, 70, 78, 50>>

\* seventeen 0xFF skips close every table: the counter passes 0x110000
Closing == [n \in 1 .. 17 |-> 255]

\* Fragments of the console font, from offset 32
FragA == <<128, 1, 7, 129>>             \* bitmap, 8 wide, 2 rows
FragB == <<128, 0, 29>>                 \* bitmap, 8 wide, 1 row
FragV == <<0, 0>>                       \* a contour fragment
FragW == <<129, 1, 5, 192, 160, 3>>     \* bitmap, 16 wide, 2 rows
OffA == 32
OffB == OffA + Len(FragA)
OffV == OffB + Len(FragB)
OffW == OffV + Len(FragV)
OffTable == OffW + Len(FragW)

\* The console font: glyphs for tab, (newline,) 'A', 'B', 'C'; none for CR and 'D'.
\*   tab, newline: no fragment, cell 4x2, advance 4
\*   'A' (65): FragA, cell 8x2, advance 8
\*   'B' (66): a sentinel, FragV, FragB at row 1; cell 10x3, advance (5, advYB)
\*   'C' (67): wide offsets; FragW at row 1, FragA at row 0; cell 8x3, advance 4
ConsoleTable(advYB, withNL) ==
    Flat(<< <<128 + 8>>, <<0, 0, 4, 2, 4, 0>>,
            IF withNL THEN <<0, 0, 4, 2, 4, 0, 128 + 53>> ELSE <<128 + 54>>,
            <<0, 1, 8, 2, 8, 0>>, <<0, 0>>, LE24(OffA),
            <<0, 3, 10, 3, 5, advYB>>, <<255, 255, 0, 0, 0>>, <<0, 0>>, LE24(OffV),
                                       <<0, 1>>, LE24(OffB),
            <<64, 2, 8, 3, 4, 0>>, <<0, 1>>, LE32(OffW), <<0, 0>>, LE32(OffA),
            Closing >>)

ConsoleFont(magic, advYB, withNL) ==
    LET body == FragA \o FragB \o FragV \o FragW \o ConsoleTable(advYB, withNL)
    IN  Header(magic, 2, OffTable, 32 + Len(body)) \o body

ConsoleKeys == {Tab, Newline, CarriageReturn, 65, 66, 67, 68}

BadMagics == {<<0, 70, 78, 50>>, <<83, 0, 78, 50>>, <<83, 70, 0, 50>>, <<83, 70, 78, 67>>}

\* Generated character tables: up to MaxTable entries, then the closing skips.
TableEntries ==
    { <<128>>, <<130>>, <<193, 44>>, <<255>>,
      <<0, 0, 8, 1, 0, 0>>,
      <<0, 1, 8, 1, 0, 0, 255, 255, 0, 0, 0>>,
      <<64, 1, 8, 1, 0, 0, 255, 255, 0, 0, 0, 0>> }

Tables == UNION {[1 .. n -> TableEntries] : n \in 0 .. MaxTable}

\* Tables whose records lie at the end of the code space: sixteen 0xFF skips,
\* a skip of one code point or of 65536, and a record at 0x100001 or at 0x110000.
HighTables ==
    {[n \in 1 .. 16 |-> <<255>>] \o <<e1, e2>> :
        e1 \in {<<128>>, <<255>>},
        e2 \in {<<0, 0, 8, 1, 0, 0>>, <<64, 1, 8, 1, 0, 0, 255, 255, 0, 0, 0, 0>>}}

ScanFont(tb) ==
    LET body == Flat(tb) \o Closing IN Header(Magic, 1, 32, 32 + Len(body)) \o body

ScanKeys == {0, 1, 3, 300, 301, 65536, 65537, 1048577, 1114112}

-----------------------------------------------------------------------------
(* Pixel memory *)

BufPtr == Stride + 2                    \* one row and a pixel of memory lie before ptr
MemRows == MaxY + 7
Addrs == 1 .. BufPtr - 1 + Stride * MemRows

OldPixel(a) == 100 + a                  \* what memory holds before the first call
Foreground == 1
Background == 2

Dst(w, h, x, y, bg) ==
    [ptr |-> BufPtr, w |-> w, h |-> h, p |-> Stride * PixelSize, x |-> x, y |-> y,
     fg |-> Foreground, bg |-> bg]

-----------------------------------------------------------------------------
(* The state machine *)

InitGhosts ==
    /\ mem = [a \in Addrs |-> OldPixel(a)]
    /\ ret = SSFN_OK
    /\ unicode = -1
    /\ chr = NoChr
    /\ steps = 0
    /\ pre = [x |-> ssfn_dst.x, y |-> ssfn_dst.y, mem |-> mem]
    /\ adv = [x |-> ssfn_dst.x, y |-> ssfn_dst.y]
    /\ scrolled = FALSE
    /\ draw = [x |-> ssfn_dst.x, y |-> ssfn_dst.y]
    /\ log = <<>>
    /\ prev = [u |-> -1, chr |-> NoChr]
    /\ calls = 0

\* a console on a valid font and destination
InitValid ==
    /\ ssfn_src = ConsoleFont(Magic, 1, FALSE)
    /\ \E w \in {0, 10, -10}, h \in {0, 3, 5}, x \in {-1, 0, 6}, y \in {-1, 0, 2},
          bg \in {0, Background} :
          ssfn_dst = Dst(w, h, x, y, bg)
    /\ keys = ConsoleKeys

\* the same console with one of the inputs invalid
InitInvalid ==
    /\ \/ /\ ssfn_src \in {NullFont} \cup {ConsoleFont(mg, 1, FALSE) : mg \in BadMagics}
          /\ ssfn_dst = Dst(10, 5, 0, 0, Background)
       \/ /\ ssfn_src = ConsoleFont(Magic, 1, FALSE)
          /\ ssfn_dst \in {[Dst(10, 5, 0, 0, Background) EXCEPT !.ptr = 0],
                           [Dst(10, 5, 0, 0, Background) EXCEPT !.p = 0]}
    /\ keys = ConsoleKeys

Init == (InitValid \/ InitInvalid) /\ InitGhosts

\* a console whose font advances horizontally only, the cursor on a line
InitCursor ==
    /\ ssfn_src = ConsoleFont(Magic, 0, TRUE)
    /\ \E w \in {10, -9}, h \in {4, 5}, y \in {0, 2}, bg \in {0, Background} :
          \E x \in 0 .. (IF w < 0 THEN -w ELSE w) :
             ssfn_dst = Dst(w, h, x, y, bg)
    /\ keys = ConsoleKeys
    /\ InitGhosts

\* lookups in generated tables
InitScan ==
    /\ \E tb \in Tables \cup HighTables : ssfn_src = ScanFont(tb)
    /\ ssfn_dst = Dst(0, 0, 0, 0, 0)
    /\ keys = ScanKeys
    /\ InitGhosts

Putc(u) ==
    /\ calls < MaxCalls
    /\ ssfn_dst.x <= MaxX
    /\ ssfn_dst.y <= MaxY
    /\ \E r \in {ssfn_putc(ssfn_src, ssfn_dst, mem, u)} :
          /\ ssfn_dst' = r.dst
          /\ mem' = r.mem
          /\ ret' = r.ret
          /\ chr' = r.chr
          /\ steps' = r.steps
          /\ adv' = r.adv
          /\ scrolled' = r.scrolled
          /\ draw' = r.draw
          /\ log' = r.log
    /\ unicode' = u
    /\ pre' = [x |-> ssfn_dst.x, y |-> ssfn_dst.y, mem |-> mem]
    /\ prev' = [u |-> unicode, chr |-> chr]
    /\ calls' = calls + 1
    /\ UNCHANGED <<ssfn_src, keys>>

Next == \E u \in keys : Putc(u)

Spec == Init /\ [][Next]_vars
SpecCursor == InitCursor /\ [][Next]_vars
SpecScan == InitScan /\ [][Next]_vars

\* every store of the model lands in the modelled memory
NoWildStore == \A n \in 1 .. Len(log) : log[n].addr \in Addrs

-----------------------------------------------------------------------------
(* What the claims speak of, stated on the state alone *)

Called == calls > 0

\* the inputs the claims call invalid
InputInvalid ==
    \/ ssfn_src = NullFont
    \/ SubSeq(ssfn_src, 1, 4) # Magic
    \/ ssfn_dst.ptr = 0
    \/ ssfn_dst.p = 0

AbsWidth == IF ssfn_dst.w < 0 THEN -ssfn_dst.w ELSE ssfn_dst.w
CellHeight == ssfn_src[12]
RowPixels == ssfn_dst.p \div PixelSize

\* L = h - cellH - (h mod cellH)
LastVisible == ssfn_dst.h - CellHeight - (ssfn_dst.h % CellHeight)

IsTerminator == unicode \in {CarriageReturn, Newline}
CursorKept == ssfn_dst.x = pre.x /\ ssfn_dst.y = pre.y
PixelsKept == mem = pre.mem

\* the call located a glyph and went on to draw it
Drew == Called /\ ~InputInvalid /\ chr # NoChr /\ ~IsTerminator

\* the address of the pixel at column cx of row cy
PixelAt(cx, cy) == ssfn_dst.ptr + cy * RowPixels + cx

-----------------------------------------------------------------------------
(* C1 *)

\* C1 as stated: a call with a code point that has no glyph record returns
\* SSFN_ERR_NOGLYPH and leaves the cursor and every pixel unchanged.
C1_Original ==
    (Called /\ ~InputInvalid /\ chr = NoChr)
        => (ret = SSFN_ERR_NOGLYPH /\ CursorKept /\ PixelsKept)

\* C1 amended: for a code point other than CR and LF that has no glyph record
\* the call returns SSFN_ERR_NOGLYPH and leaves x unchanged; unless the cursor
\* was already below the last visible line (L > 0 and y > L) it leaves y and
\* every pixel unchanged as well.
C1_NoGlyph ==
    (Called /\ ~InputInvalid /\ chr = NoChr /\ ~IsTerminator)
        => /\ ret = SSFN_ERR_NOGLYPH
           /\ ssfn_dst.x = pre.x
           /\ ~(LastVisible > 0 /\ pre.y > LastVisible) => (CursorKept /\ PixelsKept)

\* a second call, for 'D', on a scrolling console with width: not found, nothing moved
C1_Witness ==
    /\ calls = 2 /\ unicode = 68 /\ chr = NoChr /\ ret = SSFN_ERR_NOGLYPH
    /\ ssfn_dst.w # 0 /\ LastVisible > 0 /\ pre.y = LastVisible /\ pre.x > 0
    /\ CursorKept /\ PixelsKept

-----------------------------------------------------------------------------
(* C2 *)

\* C2: with a missing font, a wrong magic byte, a missing destination pointer
\* or a zero pitch the call returns SSFN_ERR_INVINP, takes no scan step and
\* leaves the cursor and every pixel unchanged, whatever the code point.
C2_InvalidInput ==
    (Called /\ InputInvalid)
        => (ret = SSFN_ERR_INVINP /\ steps = 0 /\ chr = NoChr /\ CursorKept /\ PixelsKept)

\* a newline sent to a destination with zero pitch
C2_Witness ==
    /\ Called /\ ssfn_dst.p = 0 /\ ssfn_src # NullFont /\ unicode = Newline
    /\ ret = SSFN_ERR_INVINP /\ steps = 0

-----------------------------------------------------------------------------
(* C3 *)

\* The reference decoder of the table rules: the pairs <<code point, record
\* offset>> of the table from offset o on, the counter at n.  A skip marker
\* with value j passes over j + more code points.
RECURSIVE RefPairs(_, _, _, _)
RefPairs(src, o, n, more) ==
    IF n >= CodeLimit THEN {}
    ELSE LET b0 == src[o + 1] IN
         CASE b0 = 255 -> RefPairs(src, o + 1, n + 65536, more)
           [] b0 >= 192 /\ b0 < 255 ->
                RefPairs(src, o + 2, n + (b0 - 192) * 256 + src[o + 2] + more, more)
           [] b0 >= 128 /\ b0 < 192 -> RefPairs(src, o + 1, n + (b0 - 128) + more, more)
           [] OTHER ->
                {<<n, o>>} \cup
                RefPairs(src, o + 6 + src[o + 2] * (IF b0 >= 64 THEN 6 ELSE 5), n + 1, more)

TableStart(src) == src[17] + 256 * src[18] + 65536 * src[19] + 16777216 * src[20]

RefLookup(src, u, more) ==
    LET hits == {pr \in RefPairs(src, TableStart(src), 0, more) : pr[1] = u}
    IN  IF hits = {} THEN NoChr ELSE (CHOOSE pr \in hits : TRUE)[2]

\* C3 as stated: the scan selects the record the reference decoder assigns to
\* u when a two-byte marker skips ((b0 & 0x3F) << 8) | b1 code points and a
\* one-byte marker skips b0 & 0x3F code points.
C3_Original ==
    (Called /\ ~InputInvalid) => chr = RefLookup(ssfn_src, unicode, 0)

\* C3 amended: the scan selects the record the reference decoder assigns to u
\* when a two-byte marker skips (((b0 & 0x3F) << 8) | b1) + 1 code points and a
\* one-byte marker skips (b0 & 0x3F) + 1; a repeated lookup selects the same
\* record, and none is selected when the reference assigns none.
C3_ScanAgrees ==
    (Called /\ ~InputInvalid)
        => /\ chr = RefLookup(ssfn_src, unicode, 1)
           /\ (prev.u = unicode => prev.chr = chr)

\* a record found behind a two-byte skip marker, twice in a row
C3_Witness ==
    /\ calls = 2 /\ prev.u = unicode /\ chr # NoChr /\ unicode = 301
    /\ ssfn_src[33] = 193 /\ chr = 34

-----------------------------------------------------------------------------
(* The located glyph, read from the font image as the format describes it *)

RecWide == ssfn_src[chr + 1] >= 64          \* bit 0x40 of the type byte (below 0x80)
RecCount == ssfn_src[chr + 2]
CellW == ssfn_src[chr + 3]
CellH == ssfn_src[chr + 4]
AdvanceX == ssfn_src[chr + 5]
AdvanceY == ssfn_src[chr + 6]

\* the offsets of the fragment references of the located record
Refs == {chr + 6 + i * (IF RecWide THEN 6 ELSE 5) : i \in 0 .. RecCount - 1}

RefRow(ref) == ssfn_src[ref + 2]
RefFrag(ref) ==
    ssfn_src[ref + 3] + 256 * ssfn_src[ref + 4] + 65536 * ssfn_src[ref + 5]
    + (IF RecWide THEN 16777216 * ssfn_src[ref + 6] ELSE 0)

\* the references the renderer draws: not the sentinel, and bitmap fragments
DrawnRefs ==
    {ref \in Refs : /\ ~(ssfn_src[ref + 1] = 255 /\ ssfn_src[ref + 2] = 255)
                    /\ ssfn_src[RefFrag(ref) + 1] \div 32 = 4}

FragWidth(frg) == ((ssfn_src[frg + 1] % 32) + 1) * 8
FragRowCount(frg) == ssfn_src[frg + 2] + 1

\* the payload byte holding column col of row fr of the fragment at frg
PayloadByte(frg, fr, col) == ssfn_src[frg + 2 + fr * (FragWidth(frg) \div 8) + (col \div 8) + 1]

\* the pixel is set when the least significant bit is the leftmost
SetLsbFirst(frg, fr, col) == (PayloadByte(frg, fr, col) \div (2 ^ (col % 8))) % 2 = 1

\* the pixel is set when the most significant bit is the leftmost
SetMsbFirst(frg, fr, col) == (PayloadByte(frg, fr, col) \div (2 ^ (7 - (col % 8)))) % 2 = 1

-----------------------------------------------------------------------------
(* C4 *)

\* C4 as stated: every pixel store of a drawing call has its column in
\* 0 .. |w|-1 when w is nonzero and its row in 0 .. h-1 when h is nonzero.
C4_StoresInBounds ==
    Drew => \A n \in 1 .. Len(log) :
                /\ AbsWidth # 0 => (0 <= log[n].c /\ log[n].c < AbsWidth)
                /\ ssfn_dst.h # 0 => (0 <= log[n].r /\ log[n].r < ssfn_dst.h)

-----------------------------------------------------------------------------
(* C5 *)

\* C5: with a transparent background, in a drawing call that does not scroll,
\* a pixel whose value changed holds the foreground colour and lies at
\* (drawX + c, drawY + r) for a set bit (r, c) of a drawn bitmap fragment.
C5_NoBleed ==
    (Drew /\ ssfn_dst.bg = 0 /\ ~scrolled)
        => \A a \in Addrs :
              mem[a] # pre.mem[a]
                 => /\ mem[a] = ssfn_dst.fg
                    /\ \E ref \in DrawnRefs :
                          \E fr \in 0 .. FragRowCount(RefFrag(ref)) - 1,
                             col \in 0 .. FragWidth(RefFrag(ref)) - 1 :
                                /\ SetLsbFirst(RefFrag(ref), fr, col)
                                /\ a = PixelAt(draw.x + col, draw.y + RefRow(ref) + fr)

\* 'C' drawn transparently over pixels an earlier glyph painted
C5_Witness ==
    /\ Drew /\ ssfn_dst.bg = 0 /\ ~scrolled /\ calls = 2 /\ unicode = 67
    /\ \E a \in Addrs : mem[a] = ssfn_dst.fg /\ pre.mem[a] # ssfn_dst.fg
    /\ \E a \in Addrs : pre.mem[a] = ssfn_dst.fg /\ mem[a] = ssfn_dst.fg

-----------------------------------------------------------------------------
(* C6 *)

\* C6 as stated: with an opaque background, when the declared cell lies inside
\* the destination bounds, every pixel of the cell holds the foreground or the
\* background colour after the call.
C6_CellPainted ==
    (/\ Drew /\ ssfn_dst.bg # 0 /\ AbsWidth # 0 /\ ssfn_dst.h # 0
     /\ draw.x >= 0 /\ draw.y >= 0
     /\ draw.x + CellW <= AbsWidth /\ draw.y + CellH <= ssfn_dst.h)
        => \A cy \in 0 .. CellH - 1, cx \in 0 .. CellW - 1 :
              mem[PixelAt(draw.x + cx, draw.y + cy)] \in {ssfn_dst.fg, ssfn_dst.bg}

-----------------------------------------------------------------------------
(* C7 *)

\* the pixels a scroll by one cell height leaves, where the blit stored nothing:
\* rows 0 .. L-1 hold what rows cellH .. L+cellH-1 held, the others are kept
Stored == {log[n].addr : n \in 1 .. Len(log)}

ShiftedUp ==
    \A a \in Addrs \ Stored :
        mem[a] = IF a >= ssfn_dst.ptr /\ a < ssfn_dst.ptr + LastVisible * RowPixels
                 THEN pre.mem[a + CellHeight * RowPixels]
                 ELSE pre.mem[a]

Untouched == \A a \in Addrs \ Stored : mem[a] = pre.mem[a]

\* C7 as stated: whenever y, after the vertical advance, exceeds the declared
\* height minus one cell height, the call shifts the rows up by one cell height
\* and sets y to the last visible line.
C7_Original ==
    (Called /\ ~InputInvalid /\ ssfn_dst.h # 0 /\ adv.y > ssfn_dst.h - CellHeight)
        => (draw.y = LastVisible /\ ShiftedUp)

\* C7 amended: whenever L = h - cellH - (h mod cellH) is positive and y, after
\* the vertical advance, exceeds L, the call shifts the rows up by one cell
\* height (row r < L receives row r + cellH) and sets y to L; when L <= 0, as
\* with a height below two cell heights, or y <= L, the call does not scroll.
C7_Scroll ==
    (Called /\ ~InputInvalid)
        => IF LastVisible > 0 /\ adv.y > LastVisible
           THEN draw.y = LastVisible /\ ShiftedUp
           ELSE draw.y = adv.y /\ Untouched

\* a newline on the last visible line of a console five rows high: rows move up
C7_Witness ==
    /\ Called /\ unicode = Newline /\ ssfn_dst.h = 5 /\ pre.y = 2 /\ adv.y = 4
    /\ ssfn_dst.y = 2 /\ mem[ssfn_dst.ptr] = pre.mem[ssfn_dst.ptr + 2 * RowPixels]
    /\ mem # pre.mem

-----------------------------------------------------------------------------
(* C8 *)

\* C8: a call that locates a glyph for a code point other than CR and LF
\* returns SSFN_OK and leaves the cursor at (drawX + advanceX, drawY + advanceY),
\* bytes 4 and 5 of the record, every store being made relative to (drawX, drawY).
C8_Advance ==
    Drew => /\ ret = SSFN_OK
            /\ ssfn_dst.x = draw.x + AdvanceX
            /\ ssfn_dst.y = draw.y + AdvanceY
            /\ \A n \in 1 .. Len(log) : log[n].c = draw.x + log[n].l /\ log[n].r >= draw.y

\* 'B', with skipped references and a vertical advance, drawn after a line wrap
C8_Witness ==
    /\ Drew /\ unicode = 66 /\ pre.x = 6 /\ draw.x = 0 /\ draw.y = pre.y + CellHeight
    /\ ssfn_dst.x = 5 /\ ssfn_dst.y = draw.y + 1 /\ Len(log) > 0

-----------------------------------------------------------------------------
(* C9 *)

\* the stores of fragment rows
FragStores == {n \in 1 .. Len(log) : log[n].kind \in {"fg", "bg"}}

\* C9 as stated: a fragment pixel is painted foreground exactly when bit
\* 7 - (c mod 8) of payload byte r * (rowWidth / 8) + (c div 8) is set.
C9_Original ==
    Drew => \A n \in FragStores :
                (log[n].val = ssfn_dst.fg) <=> SetMsbFirst(log[n].fo, log[n].fr, log[n].l)

\* a glyph of one drawn fragment, wholly inside the clip, in a call without scroll
WholeFragment(ref) ==
    /\ Drew /\ ~scrolled /\ Refs = {ref} /\ DrawnRefs = {ref}
    /\ draw.x >= 0 /\ (AbsWidth = 0 \/ draw.x + FragWidth(RefFrag(ref)) <= AbsWidth)
    /\ (ssfn_dst.h = 0 \/ draw.y + RefRow(ref) + FragRowCount(RefFrag(ref)) <= ssfn_dst.h)

\* C9 amended: the payload is row-major and LSB-first: the pixel at column c of
\* fragment row r is painted foreground exactly when bit (c mod 8) of payload
\* byte r * (rowWidth / 8) + (c div 8) is set, the least significant bit of each
\* byte being the leftmost of its eight pixels; a clear bit paints the
\* background colour when it is nonzero and leaves the pixel untouched otherwise.
C9_LsbFirst ==
    /\ Drew => \A n \in FragStores :
                  IF SetLsbFirst(log[n].fo, log[n].fr, log[n].l)
                  THEN log[n].val = ssfn_dst.fg
                  ELSE log[n].val = ssfn_dst.bg /\ ssfn_dst.bg # 0
    /\ \A ref \in (IF Drew THEN Refs ELSE {}) :
          WholeFragment(ref)
             => \A fr \in 0 .. FragRowCount(RefFrag(ref)) - 1,
                   col \in 0 .. FragWidth(RefFrag(ref)) - 1 :
                      LET a == PixelAt(draw.x + col, draw.y + RefRow(ref) + fr) IN
                      mem[a] = IF SetLsbFirst(RefFrag(ref), fr, col) THEN ssfn_dst.fg
                               ELSE IF ssfn_dst.bg # 0 THEN ssfn_dst.bg
                               ELSE pre.mem[a]

\* 'A' drawn whole: the row of payload byte 0x07 paints columns 0-2, not 5-7
C9_Witness ==
    /\ unicode = 65 /\ \E ref \in (IF Drew THEN Refs ELSE {}) : WholeFragment(ref)
    /\ mem[PixelAt(draw.x, draw.y)] = ssfn_dst.fg
    /\ mem[PixelAt(draw.x + 7, draw.y)] # ssfn_dst.fg
    /\ \E n \in FragStores : log[n].fr = 1 /\ log[n].l = 7 /\ log[n].val = ssfn_dst.fg

-----------------------------------------------------------------------------
(* C10 *)

\* the records of the font's character table
Records == {pr[2] : pr \in RefPairs(ssfn_src, TableStart(ssfn_src), 0, 1)}

\* cellH > 0, w nonzero, h >= 2 * cellH, and every glyph advances by 1 .. |w|
\* horizontally and not at all vertically
ConsoleShaped ==
    /\ ~InputInvalid /\ CellHeight > 0 /\ AbsWidth # 0 /\ ssfn_dst.h >= 2 * CellHeight
    /\ \A rec \in Records :
          ssfn_src[rec + 5] > 0 /\ ssfn_src[rec + 5] <= AbsWidth /\ ssfn_src[rec + 6] = 0

OnLine(cx, cy) ==
    /\ 0 <= cx /\ cx <= AbsWidth
    /\ 0 <= cy /\ cy <= LastVisible /\ cy % CellHeight = 0

\* C10: on such a console a call made with 0 <= x <= |w|, 0 <= y <= L and y a
\* multiple of cellH leaves the cursor so, and draws a glyph only where
\* drawX + advanceX <= |w| and drawY + cellH <= h.
C10_CursorInvariant ==
    (Called /\ ConsoleShaped /\ OnLine(pre.x, pre.y))
        => /\ OnLine(ssfn_dst.x, ssfn_dst.y)
           /\ Drew => (draw.x + AdvanceX <= AbsWidth /\ draw.y + CellHeight <= ssfn_dst.h)

\* 'A' wrapped to the next line and drawn on the last visible line after a scroll
C10_Witness ==
    /\ Called /\ ConsoleShaped /\ OnLine(pre.x, pre.y) /\ Drew /\ unicode = 65
    /\ pre.x > 2 /\ draw.x = 0 /\ scrolled /\ ssfn_dst.h = 5
    /\ draw.y = LastVisible /\ ssfn_dst.x = 8

====
